---- MODULE Spec2Model ----
(***************************************************************************)
(* A model of elro/mqtt.py: MQTTPublisher, the bridge that forwards the    *)
(* alarm and update notifications of the devices of a hub to an MQTT       *)
(* broker.                                                                 *)
(*                                                                         *)
(* Strings are TLA+ strings; TLC evaluates \o, Len and SubSeq on them, so  *)
(* topic() is the concatenation the f-string of the source performs.       *)
(* Byte strings (b'...', str.encode) are the pair <<"bytes", text>>, which *)
(* keeps them apart from text.                                             *)
(*                                                                         *)
(* The hub, its devices and their two conditions are outside elro/mqtt.py; *)
(* they are the environment of the model.  A condition is a latch: firing  *)
(* sets it, and the wait that observes it resets it.  A watcher returning  *)
(* from its wait, resolving the topic and calling publish is one step: the *)
(* source has no suspension point between the three.                       *)
(***************************************************************************)
EXTENDS Naturals, Sequences, FiniteSets, TLC

VARIABLES
    base_topic,   \* self.base_topic
    phase,        \* position of handle_hub_events
    error,        \* the error handle_hub_events ended with, "none" if none
    will,         \* <<config['will']>> once handle_hub_events built it
    client,       \* TRUE while the connection scope of self.client is open
    published,    \* the calls of self.client.publish each task has issued, in
                  \* order; task 0 is handle_hub_events, task t is tasks[t]
    devices,      \* hub.devices: the registry, by identity
    channel,      \* hub.new_device_receive_ch: identities not yet consumed
    closed,       \* TRUE once the discovery sequence has been closed
    signaled,     \* device.alarm / device.updated: the latch of each condition
    tasks,        \* the children of the nursery, in the order spawned
    consumed,     \* number of identities the discovery loop has read
    fired,        \* number of firings of each condition            (history)
    mutated,      \* number of changes the hub made to devices      (history)
    snapshot,     \* device.json as it was when updated last fired  (history)
    call          \* a direct call of topic / topic_name and its result

vars == <<base_topic, phase, error, will, client, published, devices, channel,
          closed, signaled, tasks, consumed, fired, mutated, snapshot, call>>

-----------------------------------------------------------------------------
(* Bounds *)

\* Spec: the whole life of handle_hub_events
MaxConsumed == 2      \* identities the hub emits in one run
MaxPublished == 3     \* publish calls in one run

\* SpecWatch: two named devices and their four watchers
WatchPublished == 5   \* publish calls in one run

\* SpecName: the hub changes a device while it is watched
NamePublished == 3    \* publish calls in one run
NameMutated == 1      \* changes of device names and states in one run

-----------------------------------------------------------------------------
(* Values *)

\* an optional argument is <<>> when it is None and <<value>> otherwise
None == <<>>
QOS_1 == 1

Ids == {"42", "7"}
Names == {"", "42", "status"}
Jsons == {"{}", "{\"state\":1}"}
BaseTopicArgs == {None, <<"">>, <<"home">>}
Cats == {"alarm", "update"}

Bytes(text) == <<"bytes", text>>
encode_utf8(text) == Bytes(text)

\* __init__: base_topic None is stored as the empty string
init_base_topic(arg) == IF arg = None THEN "" ELSE arg[1]

\* faulty variant of topic: the base topic is left out
topic_no_base(last_hierarchy) == "/elro/" \o last_hierarchy

\* topic(last_hierarchy)
topic(last_hierarchy) == base_topic \o "/elro/" \o last_hierarchy

\* faulty variant of topic_name: the name is ignored
topic_name_by_id(device) == base_topic \o "/elro/" \o device.id

\* topic_name(device)
topic_name(device) ==
    IF device.name = "" THEN topic(device.id) ELSE topic(device.name)

Absent == [present |-> FALSE, id |-> "", name |-> "", json |-> ""]

Device(id, name, json) ==
    [present |-> TRUE, id |-> id, name |-> name, json |-> json]

\* a call of self.client.publish.  state is "inflight" until the call
\* returns ("done") or raises ("failed"); dev, name_at and json_at record
\* what the device was when the call was issued
Publish(tp, payload, qos, retain, device) ==
    [topic |-> tp, payload |-> payload, qos |-> qos, retain |-> retain,
     state |-> "inflight", dev |-> device.id, name_at |-> device.name,
     json_at |-> device.json]

\* the last call of a log gets the state st
Settle(log, st) == [log EXCEPT ![Len(log)].state = st]

NoDevice == [id |-> "", name |-> "", json |-> ""]

RECURSIVE SumLen(_, _)
SumLen(f, n) == IF n = 0 THEN Len(f[0]) ELSE Len(f[n]) + SumLen(f, n - 1)

\* the number of publish calls issued so far
Issued == SumLen(published, Len(tasks))

\* the number of conditions whose latch is set
Pending == Cardinality({x \in Ids \X Cats : signaled[x[1]][x[2]]})

NoCall == [fn |-> "none", arg |-> NoDevice, ret |-> ""]

-----------------------------------------------------------------------------
(* The state after construction *)

Init ==
    /\ base_topic \in {init_base_topic(arg) : arg \in BaseTopicArgs}
    /\ phase = "init"
    /\ error = "none"
    /\ will = <<>>
    /\ client = FALSE
    /\ published = [t \in {0} |-> <<>>]
    /\ devices = [id \in Ids |-> Absent]
    /\ channel = <<>>
    /\ closed = FALSE
    /\ signaled = [id \in Ids |-> [c \in Cats |-> FALSE]]
    /\ tasks = <<>>
    /\ consumed = 0
    /\ fired = [id \in Ids |-> [c \in Cats |-> 0]]
    /\ mutated = 0
    /\ snapshot = [id \in Ids |-> ""]
    /\ call = NoCall

-----------------------------------------------------------------------------
(* The hub: the environment *)

core_vars == <<phase, error, will, client, published, tasks, consumed>>

\* a device registers with the hub
hub_register(id) ==
    /\ ~devices[id].present
    /\ devices' = [devices EXCEPT ![id] = Device(id, "", "{}")]
    /\ UNCHANGED <<base_topic, core_vars, channel, closed, signaled, fired,
                   mutated, call, snapshot>>

\* the hub emits an identity on the discovery sequence
hub_emit(id) ==
    /\ ~closed
    /\ channel' = Append(channel, id)
    /\ UNCHANGED <<base_topic, core_vars, devices, closed, signaled, fired,
                   mutated, call, snapshot>>

\* the hub closes the discovery sequence
hub_close ==
    /\ ~closed
    /\ closed' = TRUE
    /\ UNCHANGED <<base_topic, core_vars, devices, channel, signaled, fired,
                   mutated, call, snapshot>>

\* the hub changes the name of a device
hub_rename(id, name) ==
    /\ devices[id].present
    /\ devices[id].name # name
    /\ devices' = [devices EXCEPT ![id].name = name]
    /\ mutated' = mutated + 1
    /\ UNCHANGED <<base_topic, core_vars, channel, closed, signaled, fired,
                   call, snapshot>>

\* the hub changes the state of a device
hub_set_state(id, json) ==
    /\ devices[id].present
    /\ devices[id].json # json
    /\ devices' = [devices EXCEPT ![id].json = json]
    /\ mutated' = mutated + 1
    /\ UNCHANGED <<base_topic, core_vars, channel, closed, signaled, fired,
                   call, snapshot>>

\* the alarm or update condition of a device fires.  Firing a condition
\* whose latch is still set changes nothing, so only the firings that set
\* the latch are steps, and only they are counted
hub_fire(id, c) ==
    /\ devices[id].present
    /\ ~signaled[id][c]
    /\ signaled' = [signaled EXCEPT ![id][c] = TRUE]
    /\ fired' = [fired EXCEPT ![id][c] = @ + 1]
    /\ snapshot' = IF c = "update"
                   THEN [snapshot EXCEPT ![id] = devices[id].json]
                   ELSE snapshot
    /\ UNCHANGED <<base_topic, core_vars, devices, channel, closed, mutated,
                   call>>

-----------------------------------------------------------------------------
(* handle_hub_events *)

StatusDevice == [id |-> "status", name |-> "", json |-> ""]

\* faulty variant of cancel_children: the children suspended on a wait survive
cancel_children_publishing(ts) ==
    [i \in DOMAIN ts |->
        IF ts[i].pc = "publishing"
        THEN [ts[i] EXCEPT !.pc = "cancelled"]
        ELSE ts[i]]

\* every child of the nursery that is still alive is cancelled
cancel_children(ts) ==
    [i \in DOMAIN ts |->
        IF ts[i].pc \in {"waiting", "publishing"}
        THEN [ts[i] EXCEPT !.pc = "cancelled"]
        ELSE ts[i]]

\* faulty variant of handle_hub_events: a failed connection is tried again
handle_hub_events_retry ==
    /\ phase \in {"init", "failed"}
    /\ will' = <<[topic |-> base_topic \o "/elro/status",
                  message |-> Bytes("offline"), qos |-> 1, retain |-> TRUE]>>
    /\ phase' = "connecting"
    /\ error' = "none"
    /\ UNCHANGED <<base_topic, client, published, tasks, consumed, devices,
                   channel, closed, signaled, fired, mutated, call, snapshot>>

\* lines 101-111: the configuration with the last will is built and the
\* connection is requested
handle_hub_events ==
    /\ phase = "init"
    /\ will' = <<[topic |-> topic("status"), message |-> Bytes("offline"),
                  qos |-> 1, retain |-> TRUE]>>
    /\ phase' = "connecting"
    /\ UNCHANGED <<base_topic, error, client, published, tasks, consumed,
                   devices, channel, closed, signaled, fired, mutated, call,
                   snapshot>>

\* faulty variant of open_mqttclient: the publish of the online marker is not
\* awaited
open_mqttclient_unawaited ==
    /\ phase = "connecting"
    /\ client' = TRUE
    /\ published' = [published EXCEPT ![0] = Append(@,
          [topic |-> base_topic \o "/elro/status", payload |-> Bytes("online"),
           qos |-> 1, retain |-> TRUE, state |-> "inflight", dev |-> "status",
           name_at |-> "", json_at |-> ""])]
    /\ phase' = "running"
    /\ UNCHANGED <<base_topic, error, will, tasks, consumed, devices, channel,
                   closed, signaled, fired, mutated, call, snapshot>>

\* lines 111-115: the connection is established, and the online marker is
\* published at once
open_mqttclient ==
    /\ phase = "connecting"
    /\ client' = TRUE
    /\ published' = [published EXCEPT ![0] = Append(@,
          Publish(topic("status"), Bytes("online"), QOS_1, TRUE, StatusDevice))]
    /\ phase' = "announcing"
    /\ UNCHANGED <<base_topic, error, will, tasks, consumed, devices, channel,
                   closed, signaled, fired, mutated, call, snapshot>>

\* line 111: the connection cannot be established; the error leaves
\* handle_hub_events
open_mqttclient_error ==
    /\ phase = "connecting"
    /\ phase' = "failed"
    /\ error' = "connect"
    /\ UNCHANGED <<base_topic, will, client, published, tasks, consumed,
                   devices, channel, closed, signaled, fired, mutated, call,
                   snapshot>>

\* lines 112-117: the publish of the online marker returns and the nursery
\* is opened
publish_online_done ==
    /\ phase = "announcing"
    /\ published' = [published EXCEPT ![0] = Settle(@, "done")]
    /\ phase' = "running"
    /\ UNCHANGED <<base_topic, error, will, client, tasks, consumed, devices,
                   channel, closed, signaled, fired, mutated, call, snapshot>>

\* lines 112-115: the publish of the online marker fails; the connection
\* scope is left with the error
publish_online_error ==
    /\ phase = "announcing"
    /\ published' = [published EXCEPT ![0] = Settle(@, "failed")]
    /\ phase' = "errored"
    /\ error' = "publish"
    /\ client' = FALSE
    /\ UNCHANGED <<base_topic, will, tasks, consumed, devices, channel,
                   closed, signaled, fired, mutated, call, snapshot>>

Watcher(id, c) == [device |-> id, cat |-> c, pc |-> "waiting"]

\* faulty variant of discovery_next: a device discovered without a name is given
\* its id as its name
discovery_next_naming ==
    /\ phase = "running"
    /\ channel # <<>>
    /\ devices[Head(channel)].present
    /\ channel' = Tail(channel)
    /\ consumed' = consumed + 1
    /\ devices' = [devices EXCEPT ![Head(channel)].name =
                      IF @ = "" THEN Head(channel) ELSE @]
    /\ tasks' = tasks \o <<Watcher(Head(channel), "update"),
                          Watcher(Head(channel), "alarm")>>
    /\ published' = [t \in 0 .. (Len(tasks) + 2) |->
                        IF t <= Len(tasks) THEN published[t] ELSE <<>>]
    /\ UNCHANGED <<base_topic, phase, error, will, client, closed, signaled,
                   fired, mutated, snapshot, call>>

\* faulty variant of discovery_next: a device that is watched already gets no
\* second pair of watchers
discovery_next_once ==
    /\ phase = "running"
    /\ channel # <<>>
    /\ devices[Head(channel)].present
    /\ channel' = Tail(channel)
    /\ consumed' = consumed + 1
    /\ tasks' = IF \E t \in DOMAIN tasks : tasks[t].device = Head(channel)
                THEN tasks
                ELSE tasks \o <<Watcher(Head(channel), "update"),
                                Watcher(Head(channel), "alarm")>>
    /\ published' = [t \in 0 .. Len(tasks') |->
                        IF t <= Len(tasks) THEN published[t] ELSE <<>>]
    /\ UNCHANGED <<base_topic, phase, error, will, client, devices, closed,
                   signaled, fired, mutated, call, snapshot>>

\* lines 118-121: the next identity is read, the device is looked up and
\* its update task and its alarm task are started, in this order
discovery_next ==
    /\ phase = "running"
    /\ channel # <<>>
    /\ devices[Head(channel)].present
    /\ channel' = Tail(channel)
    /\ consumed' = consumed + 1
    /\ tasks' = tasks \o <<Watcher(Head(channel), "update"),
                          Watcher(Head(channel), "alarm")>>
    /\ published' = [t \in 0 .. (Len(tasks) + 2) |->
                        IF t <= Len(tasks) THEN published[t] ELSE <<>>]
    /\ UNCHANGED <<base_topic, phase, error, will, client, devices, closed,
                   signaled, fired, mutated, call, snapshot>>

\* faulty variant of discovery_lookup_error: an identity that is not in
\* hub.devices is skipped and the loop goes on
discovery_lookup_error_skipped ==
    /\ phase = "running"
    /\ channel # <<>>
    /\ ~devices[Head(channel)].present
    /\ channel' = Tail(channel)
    /\ consumed' = consumed + 1
    /\ UNCHANGED <<base_topic, phase, error, will, client, published, tasks,
                   devices, closed, signaled, fired, mutated, snapshot, call>>

\* lines 118-119: the identity read is not in hub.devices; the KeyError
\* leaves the nursery, which cancels its children, and the connection scope
discovery_lookup_error ==
    /\ phase = "running"
    /\ channel # <<>>
    /\ ~devices[Head(channel)].present
    /\ channel' = Tail(channel)
    /\ consumed' = consumed + 1
    /\ tasks' = cancel_children(tasks)
    /\ phase' = "errored"
    /\ error' = "lookup"
    /\ client' = FALSE
    /\ UNCHANGED <<base_topic, will, published, devices, closed, signaled,
                   fired, mutated, call, snapshot>>

\* faulty variant of discovery_exhausted: the end of the sequence ends the run,
\* watchers or not
discovery_exhausted_returns ==
    /\ phase = "running"
    /\ channel = <<>>
    /\ closed
    /\ phase' = "returned"
    /\ client' = FALSE
    /\ tasks' = cancel_children(tasks)
    /\ UNCHANGED <<base_topic, error, will, published, consumed, devices,
                   channel, closed, signaled, fired, mutated, snapshot, call>>

\* faulty variant of discovery_exhausted: an offline marker is published on the
\* way out
discovery_exhausted_offline ==
    /\ phase = "running"
    /\ channel = <<>>
    /\ closed
    /\ published' = [published EXCEPT ![0] = Append(@,
          [topic |-> base_topic \o "/elro/status", payload |-> Bytes("offline"),
           qos |-> 1, retain |-> TRUE, state |-> "done", dev |-> "status",
           name_at |-> "", json_at |-> ""])]
    /\ IF tasks = <<>>
       THEN phase' = "returned" /\ client' = FALSE
       ELSE phase' = "draining" /\ client' = client
    /\ UNCHANGED <<base_topic, error, will, tasks, consumed, devices, channel,
                   closed, signaled, fired, mutated, call, snapshot>>

\* line 118: the discovery sequence is exhausted; the nursery block ends
\* and waits for its children, and returns at once when it has none
discovery_exhausted ==
    /\ phase = "running"
    /\ channel = <<>>
    /\ closed
    /\ IF tasks = <<>>
       THEN phase' = "returned" /\ client' = FALSE
       ELSE phase' = "draining" /\ client' = client
    /\ UNCHANGED <<base_topic, error, will, published, tasks, consumed,
                   devices, channel, closed, signaled, fired, mutated, call,
                   snapshot>>

\* the scope handle_hub_events runs in is cancelled from outside
cancel_scope ==
    /\ phase \in {"connecting", "announcing", "running", "draining"}
    /\ phase' = "cancelled"
    /\ tasks' = cancel_children(tasks)
    /\ client' = FALSE
    /\ UNCHANGED <<base_topic, error, will, published, consumed, devices,
                   channel, closed, signaled, fired, mutated, call, snapshot>>

-----------------------------------------------------------------------------
(* The watcher tasks *)

\* faulty variant of handle_device_alarm: the alarm is published retained
handle_device_alarm_retained(t) ==
    /\ tasks[t].cat = "alarm"
    /\ tasks[t].pc = "waiting"
    /\ signaled[tasks[t].device]["alarm"]
    /\ signaled' = [signaled EXCEPT ![tasks[t].device]["alarm"] = FALSE]
    /\ published' = [published EXCEPT ![t] = Append(@,
          Publish(topic_name(devices[tasks[t].device]), Bytes("alarm"),
                  QOS_1, TRUE, devices[tasks[t].device]))]
    /\ tasks' = [tasks EXCEPT ![t].pc = "publishing"]
    /\ UNCHANGED <<base_topic, phase, error, will, client, consumed, devices,
                   channel, closed, fired, mutated, snapshot, call>>

\* faulty variant of handle_device_alarm: the wait does not reset the condition
handle_device_alarm_stale(t) ==
    /\ tasks[t].cat = "alarm"
    /\ tasks[t].pc = "waiting"
    /\ signaled[tasks[t].device]["alarm"]
    /\ published' = [published EXCEPT ![t] = Append(@,
          Publish(topic_name(devices[tasks[t].device]), Bytes("alarm"),
                  QOS_1, FALSE, devices[tasks[t].device]))]
    /\ tasks' = [tasks EXCEPT ![t].pc = "publishing"]
    /\ UNCHANGED <<base_topic, phase, error, will, client, consumed, devices,
                   channel, closed, signaled, fired, mutated, call, snapshot>>

\* faulty variant of handle_device_alarm: the publish is not awaited, so the
\* task waits again while its publish is in flight
handle_device_alarm_overlap(t) ==
    /\ tasks[t].cat = "alarm"
    /\ tasks[t].pc \in {"waiting", "publishing"}
    /\ signaled[tasks[t].device]["alarm"]
    /\ signaled' = [signaled EXCEPT ![tasks[t].device]["alarm"] = FALSE]
    /\ published' = [published EXCEPT ![t] = Append(@,
          Publish(topic_name(devices[tasks[t].device]), Bytes("alarm"),
                  QOS_1, FALSE, devices[tasks[t].device]))]
    /\ tasks' = [tasks EXCEPT ![t].pc = "publishing"]
    /\ UNCHANGED <<base_topic, phase, error, will, client, consumed, devices,
                   channel, closed, fired, mutated, call, snapshot>>

\* lines 65-72: the wait on device.alarm returns, the topic is resolved and
\* the publish of b'alarm' is issued
handle_device_alarm(t) ==
    /\ tasks[t].cat = "alarm"
    /\ tasks[t].pc = "waiting"
    /\ signaled[tasks[t].device]["alarm"]
    /\ signaled' = [signaled EXCEPT ![tasks[t].device]["alarm"] = FALSE]
    /\ published' = [published EXCEPT ![t] = Append(@,
          Publish(topic_name(devices[tasks[t].device]), Bytes("alarm"),
                  QOS_1, FALSE, devices[tasks[t].device]))]
    /\ tasks' = [tasks EXCEPT ![t].pc = "publishing"]
    /\ UNCHANGED <<base_topic, phase, error, will, client, consumed, devices,
                   channel, closed, fired, mutated, call, snapshot>>

\* faulty variant of handle_device_update: the topic of the first publish of the
\* task is kept for the later ones
handle_device_update_cached(t) ==
    /\ tasks[t].cat = "update"
    /\ tasks[t].pc = "waiting"
    /\ signaled[tasks[t].device]["update"]
    /\ signaled' = [signaled EXCEPT ![tasks[t].device]["update"] = FALSE]
    /\ published' = [published EXCEPT ![t] = Append(@,
          Publish(IF published[t] = <<>>
                  THEN topic_name(devices[tasks[t].device])
                  ELSE published[t][1].topic,
                  encode_utf8(devices[tasks[t].device].json),
                  QOS_1, FALSE, devices[tasks[t].device]))]
    /\ tasks' = [tasks EXCEPT ![t].pc = "publishing"]
    /\ UNCHANGED <<base_topic, phase, error, will, client, consumed, devices,
                   channel, closed, fired, mutated, call, snapshot>>

\* faulty variant of handle_device_update: the payload is the state the device
\* had when its update condition fired
handle_device_update_at_firing(t) ==
    /\ tasks[t].cat = "update"
    /\ tasks[t].pc = "waiting"
    /\ signaled[tasks[t].device]["update"]
    /\ signaled' = [signaled EXCEPT ![tasks[t].device]["update"] = FALSE]
    /\ published' = [published EXCEPT ![t] = Append(@,
          Publish(topic_name(devices[tasks[t].device]),
                  encode_utf8(snapshot[tasks[t].device]),
                  QOS_1, FALSE, devices[tasks[t].device]))]
    /\ tasks' = [tasks EXCEPT ![t].pc = "publishing"]
    /\ UNCHANGED <<base_topic, phase, error, will, client, consumed, devices,
                   channel, closed, fired, mutated, snapshot, call>>

\* faulty variant of handle_device_update: the wait leaves the condition set
handle_device_update_stale(t) ==
    /\ tasks[t].cat = "update"
    /\ tasks[t].pc = "waiting"
    /\ signaled[tasks[t].device]["update"]
    /\ published' = [published EXCEPT ![t] = Append(@,
          Publish(topic_name(devices[tasks[t].device]),
                  encode_utf8(devices[tasks[t].device].json),
                  QOS_1, FALSE, devices[tasks[t].device]))]
    /\ tasks' = [tasks EXCEPT ![t].pc = "publishing"]
    /\ UNCHANGED <<base_topic, phase, error, will, client, consumed, devices,
                   channel, closed, signaled, fired, mutated, call, snapshot>>

\* faulty variant of handle_device_update: the tasks share one lock, so the wait
\* returns only when no other task is publishing
handle_device_update_locked(t) ==
    /\ tasks[t].cat = "update"
    /\ tasks[t].pc = "waiting"
    /\ \A u \in DOMAIN tasks : tasks[u].pc # "publishing"
    /\ signaled[tasks[t].device]["update"]
    /\ signaled' = [signaled EXCEPT ![tasks[t].device]["update"] = FALSE]
    /\ published' = [published EXCEPT ![t] = Append(@,
          Publish(topic_name(devices[tasks[t].device]),
                  encode_utf8(devices[tasks[t].device].json),
                  QOS_1, FALSE, devices[tasks[t].device]))]
    /\ tasks' = [tasks EXCEPT ![t].pc = "publishing"]
    /\ UNCHANGED <<base_topic, phase, error, will, client, consumed, devices,
                   channel, closed, fired, mutated, call, snapshot>>

\* lines 87-94: the wait on device.updated returns, the topic is resolved
\* and the publish of the encoded device.json is issued
handle_device_update(t) ==
    /\ tasks[t].cat = "update"
    /\ tasks[t].pc = "waiting"
    /\ signaled[tasks[t].device]["update"]
    /\ signaled' = [signaled EXCEPT ![tasks[t].device]["update"] = FALSE]
    /\ published' = [published EXCEPT ![t] = Append(@,
          Publish(topic_name(devices[tasks[t].device]),
                  encode_utf8(devices[tasks[t].device].json),
                  QOS_1, FALSE, devices[tasks[t].device]))]
    /\ tasks' = [tasks EXCEPT ![t].pc = "publishing"]
    /\ UNCHANGED <<base_topic, phase, error, will, client, consumed, devices,
                   channel, closed, fired, mutated, call, snapshot>>

\* faulty variant of publish_done: the task handles one event and returns
publish_done_once(t) ==
    /\ tasks[t].pc = "publishing"
    /\ published' = [published EXCEPT ![t] = Settle(@, "done")]
    /\ tasks' = [tasks EXCEPT ![t].pc = "returned"]
    /\ UNCHANGED <<base_topic, phase, error, will, client, consumed, devices,
                   channel, closed, signaled, fired, mutated, call, snapshot>>

\* lines 57-58, 79-80: the publish returns and the loop of the task calls
\* the handler again, which waits
publish_done(t) ==
    /\ tasks[t].pc = "publishing"
    /\ published' = [published EXCEPT ![t] = Settle(@, "done")]
    /\ tasks' = [tasks EXCEPT ![t].pc = "waiting"]
    /\ UNCHANGED <<base_topic, phase, error, will, client, consumed, devices,
                   channel, closed, signaled, fired, mutated, call, snapshot>>

\* faulty variant of publish_error: the failed message is published again
publish_error_retry(t) ==
    /\ tasks[t].pc = "publishing"
    /\ published' = [published EXCEPT ![t] =
          Append(Settle(@, "failed"),
                 [@[Len(@)] EXCEPT !.state = "inflight"])]
    /\ UNCHANGED <<base_topic, phase, error, will, client, tasks, consumed,
                   devices, channel, closed, signaled, fired, mutated, call,
                   snapshot>>

\* faulty variant of publish_error: the error ends only the task it was raised in
publish_error_isolated(t) ==
    /\ tasks[t].pc = "publishing"
    /\ published' = [published EXCEPT ![t] = Settle(@, "failed")]
    /\ tasks' = [tasks EXCEPT ![t].pc = "failed"]
    /\ UNCHANGED <<base_topic, phase, error, will, client, consumed, devices,
                   channel, closed, signaled, fired, mutated, call, snapshot>>

\* lines 70-72, 92-94: the publish raises; nothing catches the error, so it
\* ends the task, the nursery cancels its other children and the discovery
\* loop, and handle_hub_events ends with the error
publish_error(t) ==
    /\ tasks[t].pc = "publishing"
    /\ published' = [published EXCEPT ![t] = Settle(@, "failed")]
    /\ tasks' = cancel_children([tasks EXCEPT ![t].pc = "failed"])
    /\ phase' = "errored"
    /\ error' = "publish"
    /\ client' = FALSE
    /\ UNCHANGED <<base_topic, will, consumed, devices, channel, closed,
                   signaled, fired, mutated, call, snapshot>>

-----------------------------------------------------------------------------

(* Specifications.  The actions above are unbounded; each specification *)
(* gives the run a budget of hub events and of publish calls.            *)

Emitted == consumed + Len(channel)

\* a firing is within the budget when its publish still is
CanFire(max) == Issued + Pending < max

core ==
    \/ handle_hub_events
    \/ open_mqttclient
    \/ open_mqttclient_error
    \/ publish_online_done
    \/ publish_online_error
    \/ discovery_next
    \/ discovery_exhausted
    \/ cancel_scope
    \/ \E t \in DOMAIN tasks : publish_done(t)
    \/ \E t \in DOMAIN tasks : publish_error(t)

\* Spec: the hub registers devices, emits identities (any identity, any
\* number of times), fires conditions and closes the sequence
Next ==
    \/ core
    \/ discovery_lookup_error
    \/ \E t \in DOMAIN tasks : handle_device_alarm(t) /\ Issued < MaxPublished
    \/ \E t \in DOMAIN tasks : handle_device_update(t) /\ Issued < MaxPublished
    \/ \E id \in Ids : hub_register(id)
    \/ \E id \in Ids : hub_emit(id) /\ Emitted < MaxConsumed
    \/ hub_close
    \/ \E id \in Ids, c \in Cats : hub_fire(id, c) /\ CanFire(MaxPublished)

Spec == Init /\ [][Next]_vars

\* SpecWatch: both devices are registered and named before the run, the
\* hub emits each identity once and fires conditions
InitWatch ==
    /\ base_topic \in {init_base_topic(arg) : arg \in BaseTopicArgs}
    /\ phase = "init"
    /\ error = "none"
    /\ will = <<>>
    /\ client = FALSE
    /\ published = [t \in {0} |-> <<>>]
    /\ devices \in {[id \in Ids |-> Device(id, names[id], "{}")] :
                        names \in [Ids -> Names]}
    /\ channel = <<>>
    /\ closed = FALSE
    /\ signaled = [id \in Ids |-> [c \in Cats |-> FALSE]]
    /\ tasks = <<>>
    /\ consumed = 0
    /\ fired = [id \in Ids |-> [c \in Cats |-> 0]]
    /\ mutated = 0
    /\ snapshot = [id \in Ids |-> ""]
    /\ call = NoCall

NotEmitted(id) ==
    /\ \A i \in DOMAIN channel : channel[i] # id
    /\ \A t \in DOMAIN tasks : tasks[t].device # id

NextWatch ==
    \/ core
    \/ \E t \in DOMAIN tasks : handle_device_alarm(t) /\ Issued < WatchPublished
    \/ \E t \in DOMAIN tasks : handle_device_update(t) /\ Issued < WatchPublished
    \/ \E id \in Ids : hub_emit(id) /\ NotEmitted(id)
    \/ hub_close
    \/ \E id \in Ids, c \in Cats : hub_fire(id, c) /\ CanFire(WatchPublished)

SpecWatch == InitWatch /\ [][NextWatch]_vars

\* SpecName: both devices are registered, unnamed, before the run; the
\* hub emits each identity once, fires conditions, and renames devices and
\* changes their state while they are watched
InitName ==
    /\ base_topic \in {init_base_topic(arg) : arg \in BaseTopicArgs}
    /\ phase = "init"
    /\ error = "none"
    /\ will = <<>>
    /\ client = FALSE
    /\ published = [t \in {0} |-> <<>>]
    /\ devices = [id \in Ids |-> Device(id, "", "{}")]
    /\ channel = <<>>
    /\ closed = FALSE
    /\ signaled = [id \in Ids |-> [c \in Cats |-> FALSE]]
    /\ tasks = <<>>
    /\ consumed = 0
    /\ fired = [id \in Ids |-> [c \in Cats |-> 0]]
    /\ mutated = 0
    /\ snapshot = [id \in Ids |-> ""]
    /\ call = NoCall

NextName ==
    \/ core
    \/ \E t \in DOMAIN tasks : handle_device_alarm(t) /\ Issued < NamePublished
    \/ \E t \in DOMAIN tasks : handle_device_update(t) /\ Issued < NamePublished
    \/ \E id \in Ids : hub_emit(id) /\ NotEmitted(id)
    \/ hub_close
    \/ \E id \in Ids, c \in Cats : hub_fire(id, c) /\ CanFire(NamePublished)
    \/ \E id \in Ids, name \in Names :
          hub_rename(id, name) /\ mutated < NameMutated
    \/ \E id \in Ids, json \in Jsons :
          hub_set_state(id, json) /\ mutated < NameMutated

SpecName == InitName /\ [][NextName]_vars

\* SpecTopic: topic and topic_name called on a publisher of any base topic
TopicArgs == {None, <<"">>, <<"home">>, <<"a/b">>, <<"x_1-y">>}
TopicIds == {"42", "7", "0", "a1"}
TopicNames == {"", "Kitchen", "42", "status", "Living Room"}

InitTopic ==
    /\ base_topic \in {init_base_topic(arg) : arg \in TopicArgs}
    /\ phase = "init"
    /\ error = "none"
    /\ will = <<>>
    /\ client = FALSE
    /\ published = [t \in {0} |-> <<>>]
    /\ devices = [id \in Ids |-> Absent]
    /\ channel = <<>>
    /\ closed = FALSE
    /\ signaled = [id \in Ids |-> [c \in Cats |-> FALSE]]
    /\ tasks = <<>>
    /\ consumed = 0
    /\ fired = [id \in Ids |-> [c \in Cats |-> 0]]
    /\ mutated = 0
    /\ snapshot = [id \in Ids |-> ""]
    /\ call = NoCall

\* self.topic(last_hierarchy) is called
call_topic(last_hierarchy) ==
    /\ call' = [fn |-> "topic",
                arg |-> [id |-> last_hierarchy, name |-> "", json |-> ""],
                ret |-> topic(last_hierarchy)]
    /\ UNCHANGED <<base_topic, core_vars, devices, channel, closed, signaled,
                   fired, mutated, snapshot>>

\* self.topic_name(device) is called
call_topic_name(device) ==
    /\ call' = [fn |-> "topic_name", arg |-> device, ret |-> topic_name(device)]
    /\ UNCHANGED <<base_topic, core_vars, devices, channel, closed, signaled,
                   fired, mutated, snapshot>>

NextTopic ==
    \/ \E s \in TopicIds \cup TopicNames : call_topic(s)
    \/ \E id \in TopicIds, name \in TopicNames :
          call_topic_name([id |-> id, name |-> name, json |-> ""])

SpecTopic == InitTopic /\ [][NextTopic]_vars

-----------------------------------------------------------------------------
(* Properties *)

\* the name or id a device publish was derived from
Anchor(e) == IF e.name_at = "" THEN e.dev ELSE e.name_at

\* the topic the source documents for an anchor: <base topic>/elro/<anchor>
Expected(anchor) == base_topic \o "/elro/" \o anchor

\* the publish calls issued by the watcher tasks
DeviceCalls == UNION {{published[t][i] : i \in DOMAIN published[t]} :
                        t \in DOMAIN tasks}

RECURSIVE CountCalls(_, _, _)
\* the number of publish calls the c-watchers of device id have issued,
\* among the first n tasks
CountCalls(id, c, n) ==
    IF n = 0 THEN 0
    ELSE (IF tasks[n].device = id /\ tasks[n].cat = c
          THEN Len(published[n]) ELSE 0) + CountCalls(id, c, n - 1)

Latched(id, c) == IF signaled[id][c] THEN 1 ELSE 0

SomeFailed == \E t \in DOMAIN tasks : tasks[t].pc = "failed"

\* C1: whenever the discovery sequence has been read, a watcher exists or a
\* device publish has been issued, the one publish of handle_hub_events is
\* 'online' on topic('status'), QoS 1, retained, and it has completed.
C1_OnlineFirst ==
    (consumed > 0 \/ tasks # <<>> \/ DeviceCalls # {}) =>
        /\ Len(published[0]) = 1
        /\ published[0][1].topic = Expected("status")
        /\ published[0][1].payload = Bytes("online")
        /\ published[0][1].qos = 1
        /\ published[0][1].retain = TRUE
        /\ published[0][1].state = "done"

C1_Witness ==
    /\ consumed > 0
    /\ \E t \in DOMAIN tasks : published[t] # <<>>

\* C3: once the scope is cancelled every watcher task is cancelled, and from
\* then on no publish is issued, no identity is read and no task changes,
\* whatever the hub does.
C3_CancelStopsAll ==
    /\ [](phase = "cancelled" =>
            \A t \in DOMAIN tasks : tasks[t].pc = "cancelled")
    /\ [][phase = "cancelled" =>
            /\ phase' = "cancelled"
            /\ published' = published
            /\ tasks' = tasks
            /\ consumed' = consumed]_vars

C3_Witness ==
    /\ phase = "cancelled"
    /\ \E t, u \in DOMAIN tasks :
          /\ tasks[t].device # tasks[u].device
          /\ signaled[tasks[t].device][tasks[t].cat]
          /\ published[t] = <<>>
    /\ ~closed

\* C7: in the Failed state nothing was published, nothing was read from the
\* discovery sequence and no watcher exists, and Failed is never left.
C7_FailedIsFinal ==
    /\ [](phase = "failed" =>
            /\ error = "connect"
            /\ Issued = 0
            /\ consumed = 0
            /\ tasks = <<>>
            /\ ~client)
    /\ [][phase = "failed" => phase' = "failed"]_vars

C7_Witness ==
    /\ phase = "failed"
    /\ channel # <<>>

\* C8: a publish that failed in a watcher task is the last publish of that
\* task (it is not issued again, and nothing is issued after it), and the
\* task has ended with the failure.
C8_FailedPublishIsLast ==
    \A t \in DOMAIN tasks : \A i \in DOMAIN published[t] :
        published[t][i].state = "failed" =>
            /\ i = Len(published[t])
            /\ tasks[t].pc = "failed"

C8_Witness ==
    \E t \in DOMAIN tasks :
        /\ tasks[t].pc = "failed"
        /\ signaled[tasks[t].device][tasks[t].cat]

\* C9: no publish has payload 'offline'; handle_hub_events itself issues at
\* most one publish, the 'online' marker, and no watcher publishes 'online';
\* the last will is 'offline' on the topic of the 'online' publish,
\* topic('status'), with QoS 1 and retain.
C9_OfflineOnlyInWill ==
    /\ \A t \in DOMAIN published : \A i \in DOMAIN published[t] :
          /\ published[t][i].payload # Bytes("offline")
          /\ published[t][i].payload = Bytes("online") => t = 0
    /\ Len(published[0]) <= 1
    /\ will # <<>> =>
          /\ will[1].topic = Expected("status")
          /\ will[1].message = Bytes("offline")
          /\ will[1].qos = 1
          /\ will[1].retain = TRUE
    /\ published[0] # <<>> =>
          /\ will # <<>>
          /\ published[0][1].payload = Bytes("online")
          /\ published[0][1].topic = will[1].topic
          /\ published[0][1].qos = will[1].qos
          /\ published[0][1].retain = will[1].retain

C9_Witness ==
    /\ phase = "returned"
    /\ Len(published[0]) = 1
    /\ ~client

\* C10: when a publish has failed in a watcher, handle_hub_events has ended
\* with the publish error, the connection is closed and every other watcher
\* is cancelled; from then on no publish is issued and no identity is read.
C10_NoIsolation ==
    /\ [](SomeFailed =>
            /\ phase = "errored"
            /\ error = "publish"
            /\ ~client
            /\ \A u \in DOMAIN tasks : tasks[u].pc \in {"failed", "cancelled"})
    /\ [][SomeFailed =>
            /\ published' = published
            /\ tasks' = tasks
            /\ consumed' = consumed
            /\ phase' = phase]_vars

C10_Witness ==
    /\ \E t, u \in DOMAIN tasks :
          /\ tasks[t].pc = "failed"
          /\ tasks[u].pc = "cancelled"
          /\ tasks[u].device # tasks[t].device
          /\ signaled[tasks[u].device][tasks[u].cat]
    /\ ~closed

\* C2: for every device, the alarm publishes its alarm watchers have issued,
\* plus the one firing still latched if any, are as many as the firings of
\* its alarm condition; each is b'alarm', QoS 1, on the topic of the device.
C2_AlarmPerFiring ==
    \A id \in Ids :
        /\ CountCalls(id, "alarm", Len(tasks)) + Latched(id, "alarm")
              = fired[id]["alarm"]
        /\ \A t \in DOMAIN tasks :
              (tasks[t].device = id /\ tasks[t].cat = "alarm") =>
                  \A i \in DOMAIN published[t] :
                      /\ published[t][i].payload = Bytes("alarm")
                      /\ published[t][i].qos = 1
                      /\ published[t][i].dev = id
                      /\ published[t][i].topic = Expected(Anchor(published[t][i]))

C2_Witness ==
    \E t \in DOMAIN tasks :
        /\ tasks[t].cat = "alarm"
        /\ tasks[t].pc = "waiting"
        /\ fired[tasks[t].device]["alarm"] = 2
        /\ ~signaled[tasks[t].device]["alarm"]
        /\ Len(published[t]) = 2
        /\ ~SomeFailed
        /\ phase = "running"

\* C4 as stated: a publish of one device and a publish of another device
\* never have the same topic.
C4_TopicsNeverEqual ==
    \A t, u \in DOMAIN tasks :
        tasks[t].device # tasks[u].device =>
            \A i \in DOMAIN published[t] : \A j \in DOMAIN published[u] :
                published[t][i].topic # published[u][j].topic

\* C4 amended: every firing of every condition of the two devices gets one
\* publish (issued, or still latched), each publish is on the topic of the
\* device whose condition fired, and publishes of two devices have different
\* topics whenever the name-or-id they are derived from differ.
C4_PerDeviceTopics ==
    /\ \A id \in Ids, c \in Cats :
          CountCalls(id, c, Len(tasks)) + Latched(id, c) = fired[id][c]
    /\ \A t \in DOMAIN tasks : \A i \in DOMAIN published[t] :
          /\ published[t][i].dev = tasks[t].device
          /\ published[t][i].topic = Expected(Anchor(published[t][i]))
    /\ \A t, u \in DOMAIN tasks :
          tasks[t].device # tasks[u].device =>
              \A i \in DOMAIN published[t] : \A j \in DOMAIN published[u] :
                  Anchor(published[t][i]) # Anchor(published[u][j]) =>
                      published[t][i].topic # published[u][j].topic

C4_Witness ==
    /\ Len(tasks) = 4
    /\ \A id \in Ids, c \in Cats : fired[id][c] = 1 /\ ~signaled[id][c]
    /\ \A t \in DOMAIN tasks : Len(published[t]) = 1
    /\ \A t, u \in DOMAIN tasks :
          tasks[t].device # tasks[u].device =>
              published[t][1].topic # published[u][1].topic
    /\ \E id \in Ids : devices[id].name # ""

\* C5 as stated: when the name of a device differs between two successive
\* update publishes, their topics differ.
C5_RenameChangesTopic ==
    \A t \in DOMAIN tasks :
        tasks[t].cat = "update" =>
            \A i \in DOMAIN published[t] :
                (i < Len(published[t])
                    /\ published[t][i].name_at # published[t][i + 1].name_at)
                => published[t][i].topic # published[t][i + 1].topic

\* C5 amended: every update publish is on the topic derived from the name
\* the device has when the watcher wakes (its id when that name is empty),
\* and two successive update publishes have different topics whenever the
\* name-or-id they are derived from differ.
C5_TopicFollowsName ==
    \A t \in DOMAIN tasks :
        tasks[t].cat = "update" =>
            \A i \in DOMAIN published[t] :
                /\ published[t][i].topic = Expected(Anchor(published[t][i]))
                /\ (i < Len(published[t])
                      /\ Anchor(published[t][i]) # Anchor(published[t][i + 1]))
                   => published[t][i].topic # published[t][i + 1].topic

C5_Witness ==
    \E t \in DOMAIN tasks :
        /\ tasks[t].cat = "update"
        /\ Len(published[t]) = 2
        /\ published[t][1].name_at # published[t][2].name_at
        /\ published[t][1].topic # published[t][2].topic
        /\ published[t][2].topic = Expected(devices[tasks[t].device].name)

\* r is the base topic, then "/elro/", then s
HasShape(r, s) ==
    /\ Len(r) = Len(base_topic) + 6 + Len(s)
    /\ SubSeq(r, 1, Len(base_topic)) = base_topic
    /\ SubSeq(r, Len(base_topic) + 1, Len(base_topic) + 6) = "/elro/"
    /\ SubSeq(r, Len(base_topic) + 7, Len(r)) = s

\* C6: topic(s) is the base topic, "/elro/" and s; topic_name(device) is
\* topic(device.id) when the name is empty and topic(device.name) otherwise;
\* with an empty base topic the result starts with "/elro/".
C6_TopicShape ==
    /\ call.fn = "topic" => HasShape(call.ret, call.arg.id)
    /\ (call.fn = "topic_name" /\ call.arg.name = "")
          => HasShape(call.ret, call.arg.id)
    /\ (call.fn = "topic_name" /\ call.arg.name # "")
          => HasShape(call.ret, call.arg.name)
    /\ (call.fn # "none" /\ base_topic = "")
          => SubSeq(call.ret, 1, 6) = "/elro/"

C6_Witness ==
    /\ call.fn = "topic_name"
    /\ call.arg.name = ""
    /\ call.arg.id = "42"
    /\ base_topic = "home"
    /\ call.ret = "home/elro/42"

\* the publish calls in flight among those of the c-watchers of device id
InFlight(id, c) ==
    {<<t, i>> \in UNION {{t} \X DOMAIN published[t] : t \in DOMAIN tasks} :
        /\ tasks[t].device = id
        /\ tasks[t].cat = c
        /\ published[t][i].state = "inflight"
        /\ tasks[t].pc = "publishing"}

C12_TwoTasksPerIdentity ==
    /\ [](error # "lookup" =>
            /\ Len(tasks) = 2 * consumed
            /\ \A k \in 1 .. consumed :
                  /\ tasks[2 * k - 1].cat = "update"
                  /\ tasks[2 * k].cat = "alarm"
                  /\ tasks[2 * k - 1].device = tasks[2 * k].device)
    /\ [][Len(tasks') # Len(tasks) =>
            /\ channel # <<>>
            /\ channel' = Tail(channel)
            /\ consumed' = consumed + 1
            /\ tasks' = tasks \o <<Watcher(Head(channel), "update"),
                                  Watcher(Head(channel), "alarm")>>]_vars

C12_Witness ==
    /\ consumed = 2
    /\ Len(tasks) = 4
    /\ tasks[1].device = tasks[3].device
    /\ error = "none"

\* C13: whatever the other tasks are doing, the discovery loop can read the
\* next identity of a known device, a waiting watcher whose condition has
\* fired can wake and publish, and a publish in flight can return; and a step
\* of one task that ends nothing leaves the other tasks where they are.
C13_Independent ==
    /\ []((phase = "running" /\ channel # <<>> /\ devices[Head(channel)].present)
            => ENABLED discovery_next)
    /\ [](\A u \in DOMAIN tasks :
            /\ (tasks[u].pc = "waiting" /\ signaled[tasks[u].device][tasks[u].cat])
                  => IF tasks[u].cat = "alarm"
                     THEN ENABLED handle_device_alarm(u)
                     ELSE ENABLED handle_device_update(u)
            /\ tasks[u].pc = "publishing" => ENABLED publish_done(u))
    /\ [][\A t \in DOMAIN tasks :
            (published'[t] # published[t] /\ phase' = phase)
            => \A u \in DOMAIN tasks \ {t} :
                  tasks'[u] = tasks[u] /\ published'[u] = published[u]]_vars

C13_Witness ==
    /\ phase = "running"
    /\ channel # <<>>
    /\ devices[Head(channel)].present
    /\ \E t, u \in DOMAIN tasks :
          /\ tasks[t].pc = "publishing"
          /\ tasks[t].cat = "alarm"
          /\ tasks[u].pc = "waiting"
          /\ tasks[u].cat = "update"
          /\ signaled[tasks[u].device]["update"]

\* C14: while the run has neither failed nor been cancelled every watcher is
\* waiting or publishing: a task ends only by the failure of its own publish
\* or by the cancellation of the scope it runs in (from outside, or by the
\* nursery when a sibling or the discovery loop fails); a task keeps its
\* device and its condition for good; and a publish that returns leaves its
\* task waiting again.
C14_WatchersNeverReturn ==
    /\ [](phase \in {"running", "draining"} =>
            \A t \in DOMAIN tasks : tasks[t].pc \in {"waiting", "publishing"})
    /\ [](\A t \in DOMAIN tasks :
            tasks[t].pc \in {"waiting", "publishing", "failed", "cancelled"})
    /\ [](\A t \in DOMAIN tasks :
            /\ tasks[t].pc = "failed" => phase = "errored" /\ error = "publish"
            /\ tasks[t].pc = "cancelled" => phase \in {"errored", "cancelled"})
    /\ [][\A t \in DOMAIN tasks :
            /\ tasks'[t].device = tasks[t].device
            /\ tasks'[t].cat = tasks[t].cat
            /\ (tasks[t].pc = "publishing" /\ tasks'[t].pc # "publishing"
                  /\ phase' \in {"running", "draining"})
               => /\ tasks'[t].pc = "waiting"
                  /\ published'[t] = Settle(published[t], "done")]_vars

C14_Witness ==
    \E t \in DOMAIN tasks :
        /\ tasks[t].pc = "waiting"
        /\ Len(published[t]) = 2
        /\ published[t][2].state = "done"
        /\ phase \in {"running", "draining"}

\* C15: a watcher has issued at most as many publishes as the condition it
\* waits on has fired; the step in which a watcher issues a publish finds
\* the condition fired and leaves it reset, and only a firing sets it again,
\* so the watcher publishes again only after another firing.
C15_NoStaleWake ==
    /\ [](\A t \in DOMAIN tasks :
            Len(published[t]) <= fired[tasks[t].device][tasks[t].cat])
    /\ [][\A t \in DOMAIN tasks :
            Len(published'[t]) > Len(published[t]) =>
                /\ signaled[tasks[t].device][tasks[t].cat]
                /\ ~signaled'[tasks[t].device][tasks[t].cat]
                /\ fired' = fired]_vars
    /\ [][\A id \in Ids, c \in Cats :
            (~signaled[id][c] /\ signaled'[id][c]) =>
                fired'[id][c] = fired[id][c] + 1]_vars

C15_Witness ==
    \E t \in DOMAIN tasks :
        /\ tasks[t].cat = "update"
        /\ Len(published[t]) = 2
        /\ fired[tasks[t].device]["update"] = 2
        /\ ~signaled[tasks[t].device]["update"]
        /\ tasks[t].pc = "waiting"

\* C16: the step in which an update watcher issues a publish takes the
\* payload from the state and the topic from the name (or id) the device has
\* in that step, whatever they were when the condition fired, and the device
\* does not change within the step; so every update publish carries the
\* state and the name of one and the same moment.
C16_PayloadAtWake ==
    /\ [][\A t \in DOMAIN tasks :
            (tasks[t].cat = "update" /\ Len(published'[t]) > Len(published[t]))
            => LET e == published'[t][Len(published'[t])]
                   d == devices[tasks[t].device]
               IN  /\ e.payload = encode_utf8(d.json)
                   /\ e.topic = Expected(IF d.name = "" THEN d.id ELSE d.name)
                   /\ e.json_at = d.json
                   /\ e.name_at = d.name
                   /\ devices' = devices]_vars
    /\ [](\A t \in DOMAIN tasks : \A i \in DOMAIN published[t] :
            tasks[t].cat = "update" =>
                /\ published[t][i].payload = Bytes(published[t][i].json_at)
                /\ published[t][i].topic = Expected(Anchor(published[t][i])))

C16_Witness ==
    \E t \in DOMAIN tasks :
        /\ tasks[t].cat = "update"
        /\ Len(published[t]) = 1
        /\ fired[tasks[t].device]["update"] = 1
        /\ published[t][1].json_at # snapshot[tasks[t].device]
        /\ published[t][1].payload = Bytes("{\"state\":1}")

\* C17: a step that changes anything of handle_hub_events or of a watcher
\* task (the phase, the connection, the tasks, the publishes, the count of
\* identities read) leaves the registry and every device as they are; and a
\* step that changes a device or the registry changes nothing of the core.
C17_CoreOnlyObserves ==
    /\ [][core_vars' # core_vars => devices' = devices]_vars
    /\ [][devices' # devices =>
            /\ UNCHANGED core_vars
            /\ mutated' = mutated + 1]_vars
    /\ [](\A id \in Ids : devices[id].present /\ devices[id].id = id)

C17_Witness ==
    /\ mutated = 1
    /\ \E id \in Ids : devices[id].name # "" \/ devices[id].json # "{}"
    /\ \E t \in DOMAIN tasks :
          /\ published[t] # <<>>
          /\ tasks[t].pc = "waiting"
          /\ devices[tasks[t].device] # Device(tasks[t].device, "", "{}")

\* C18: once the discovery sequence has ended with watchers running, the
\* connection stays open and every watcher stays waiting or publishing; a
\* watcher whose condition has fired can still wake and publish; the run
\* leaves this state only by an error or a cancellation, never by returning;
\* and handle_hub_events has returned only if no identity was ever read.
C18_ExhaustionKeepsWatchers ==
    /\ [](phase = "draining" =>
            /\ client
            /\ closed /\ channel = <<>>
            /\ tasks # <<>>
            /\ \A t \in DOMAIN tasks :
                  /\ tasks[t].pc \in {"waiting", "publishing"}
                  /\ (tasks[t].pc = "waiting"
                        /\ signaled[tasks[t].device][tasks[t].cat])
                     => IF tasks[t].cat = "alarm"
                        THEN ENABLED handle_device_alarm(t)
                        ELSE ENABLED handle_device_update(t))
    /\ [](phase = "returned" =>
            tasks = <<>> /\ consumed = 0 /\ closed /\ error = "none")
    /\ [][phase = "draining" =>
            phase' \in {"draining", "errored", "cancelled"}]_vars
    /\ [][(phase = "running" /\ phase' \in {"draining", "returned"}) =>
            /\ closed /\ channel = <<>>
            /\ phase' = (IF tasks = <<>> THEN "returned" ELSE "draining")
            /\ tasks' = tasks]_vars

C18_Witness ==
    /\ phase = "draining"
    /\ \E t \in DOMAIN tasks :
          /\ tasks[t].pc = "publishing"
          /\ Len(published[t]) = 2
          /\ published[t][1].state = "done"

\* C19 as stated: no publish of a watcher is on the presence topic
\* topic('status') and none is retained; the online marker and the last
\* will are on topic('status') and retained.
C19_NoDeviceOnStatus ==
    /\ \A t \in DOMAIN tasks : \A i \in DOMAIN published[t] :
          /\ published[t][i].topic # topic("status")
          /\ published[t][i].retain = FALSE
    /\ \A i \in DOMAIN published[0] :
          published[0][i].topic = topic("status") /\ published[0][i].retain
    /\ will # <<>> => will[1].topic = topic("status") /\ will[1].retain

\* C19 amended: no publish of a watcher is retained, and a publish of a
\* watcher is on the presence topic topic('status') exactly when the name of
\* its device (the id, for a device without a name) is "status"; the online
\* marker and the last will are on topic('status') and retained, and they
\* are the only retained messages.
C19_StatusOnlyByName ==
    /\ \A t \in DOMAIN tasks : \A i \in DOMAIN published[t] :
          /\ published[t][i].retain = FALSE
          /\ published[t][i].topic = topic("status")
                <=> Anchor(published[t][i]) = "status"
          /\ published[t][i].payload = Bytes("alarm")
                <=> tasks[t].cat = "alarm"
    /\ \A i \in DOMAIN published[0] :
          published[0][i].topic = topic("status") /\ published[0][i].retain
    /\ will # <<>> => will[1].topic = topic("status") /\ will[1].retain

C19_Witness ==
    \E t, u \in DOMAIN tasks :
        /\ published[t] # <<>>
        /\ published[t][1].topic = topic("status")
        /\ published[t][1].retain = FALSE
        /\ published[t][1].payload = Bytes("alarm")
        /\ published[u] # <<>>
        /\ published[u][1].topic # topic("status")
        /\ published[0][1].topic = topic("status")

\* C20: the step that reads an identity which is not in the registry starts
\* no task, cancels every task, closes the connection and ends
\* handle_hub_events with the lookup error; once that error is raised no
\* identity is read, no publish is issued and no task changes any more; and
\* as long as no lookup failed every identity read was in the registry.
C20_LookupErrorTearsDown ==
    /\ [][(consumed' # consumed /\ ~devices[Head(channel)].present) =>
            /\ phase = "running"
            /\ phase' = "errored"
            /\ error' = "lookup"
            /\ ~client'
            /\ Len(tasks') = Len(tasks)
            /\ published' = published
            /\ \A t \in DOMAIN tasks :
                  /\ tasks'[t].pc = "cancelled"
                  /\ tasks'[t].device # Head(channel)]_vars
    /\ [](error = "lookup" =>
            /\ phase = "errored"
            /\ ~client
            /\ consumed >= 1
            /\ Len(tasks) = 2 * (consumed - 1)
            /\ \A t \in DOMAIN tasks : tasks[t].pc = "cancelled")
    /\ [][error = "lookup" => UNCHANGED core_vars]_vars
    /\ [](error # "lookup" =>
            \A t \in DOMAIN tasks : devices[tasks[t].device].present)

C20_Witness ==
    /\ error = "lookup"
    /\ Len(tasks) = 2
    /\ \E t \in DOMAIN tasks :
          /\ tasks[t].pc = "cancelled"
          /\ published[t] # <<>>
          /\ published[t][Len(published[t])].state = "inflight"
    /\ \E t \in DOMAIN tasks : signaled[tasks[t].device][tasks[t].cat]

====
